---------------------------- MODULE Spec2Model ----------------------------
(***************************************************************************)
(* Model of the harvest-order solver (services/logic: getSeedEV,           *)
(* getCropMultiplier, generateKey, solve, clearMemo) and of its module-    *)
(* level cache `memo`.                                                     *)
(*                                                                         *)
(* Numbers.  JavaScript numbers are IEEE-754 doubles.  Every parameter     *)
(* value used below is a dyadic rational of small magnitude and every      *)
(* quotient maxCount / currentCount is 1 or 2, so each +, -, * and /       *)
(* of the code is exact on these inputs; the model computes with exact     *)
(* rationals <<numerator, denominator>> in lowest terms.                   *)
(*                                                                         *)
(* Strings.  A field identifier is a sequence of one-character strings     *)
(* (localeCompare needs the characters); keys, plot ids and step           *)
(* descriptions are strings built by concatenation as the template         *)
(* literals of the code build them.  The CJK literals of the step          *)
(* description are written in ASCII ("Harvest", "zuo"/"you", "zi"/"lan"/   *)
(* "huang").                                                               *)
(***************************************************************************)
EXTENDS Integers, Sequences, FiniteSets, TLC

VARIABLES
  memo,      \* the module-level Map<string, SolveResult>
  gameParams, \* the caller's current GameParams
  last,      \* what the last call of the exported API did and returned
  fills,     \* number of top-level solve calls that wrote the cache since the last clear
  plots,     \* encoder runs: the first plot list
  other,     \* encoder runs: the second plot list
  stateKey,  \* encoder runs: <<generateKey(plots)>> once computed, else <<>>
  otherKey,  \* encoder runs: <<generateKey(other)>> once computed, else <<>>
  heap,      \* heap runs: the arrays and plot records of one top-level call of solve
  calc,      \* calculator runs: the position of a getSeedEV / getCropMultiplier call
  before,    \* raise runs: <<result>> of the solve before the last raise of a tier value
  fields,    \* App: the `fields` state, an array of addresses of field objects
  fieldCount, \* App: the `fieldCount` state
  neighborCheck, \* App: the `neighborCheck` state, <<>> for null
  runs,      \* App: the runSolver invocations that wait, and how many were started
  suggestion \* App: the `suggestion` state, <<>> for null

\* the state of the App component
appVars == <<fields, fieldCount, neighborCheck, runs, suggestion>>

vars == <<memo, gameParams, last, fills, plots, other, stateKey, otherKey, heap, calc,
          before, appVars>>

---------------------------------------------------------------------------
(* Bounds of the model *)

\* largest upgrade level k a plot of an input list starts with
MaxStartK == 0
\* number of cache-filling top-level solve calls between two clears (warm runs)
MaxFills == 2
\* longest plot list handed to the encoder runs
MaxKeyLen == 2

---------------------------------------------------------------------------
(* JavaScript number arithmetic, exact on the inputs of the model *)

RECURSIVE Gcd(_, _)
Gcd(a, b) == IF b = 0 THEN a ELSE Gcd(b, a % b)

Abs(n) == IF n < 0 THEN -n ELSE n

\* n / d (d > 0) divided through by g
Reduce(n, d, g) == <<n \div g, d \div g>>

\* n / d in lowest terms, the denominator positive
Norm(n, d) ==
  IF d < 0 THEN Reduce(-n, -d, Gcd(Abs(n), Abs(d))) ELSE Reduce(n, d, Gcd(Abs(n), Abs(d)))

R(n) == <<n, 1>>
Zero == R(0)
One == R(1)
Half == <<1, 2>>

RAdd(x, y) == Norm(x[1] * y[2] + y[1] * x[2], x[2] * y[2])
RSub(x, y) == Norm(x[1] * y[2] - y[1] * x[2], x[2] * y[2])
RMul(x, y) == Norm(x[1] * y[1], x[2] * y[2])
\* only used with y > 0 (the code returns before dividing otherwise)
RDiv(x, y) == Norm(x[1] * y[2], x[2] * y[1])
RGt(x, y) == x[1] * y[2] > y[1] * x[2]
RLe(x, y) == ~RGt(x, y)
RMax2(x, y) == IF RGt(y, x) THEN y ELSE x
RMax3(x, y, z) == RMax2(RMax2(x, y), z)

---------------------------------------------------------------------------
(* getSeedEV *)

\* as AdvanceTiers, tier 4 not keeping the mass it holds
AdvanceTiersLeaky(p, params) ==
  << RMul(p[1], RSub(One, params.probL1toL2)),
     RAdd(RMul(p[1], params.probL1toL2), RMul(p[2], RSub(One, params.probL2toL3))),
     RAdd(RMul(p[2], params.probL2toL3), RMul(p[3], RSub(One, params.probL3toL4))),
     RMul(p[3], params.probL3toL4) >>

\* one pass of the loop body: the tier vector advanced by one check
AdvanceTiers(p, params) ==
  << RMul(p[1], RSub(One, params.probL1toL2)),
     RAdd(RMul(p[1], params.probL1toL2), RMul(p[2], RSub(One, params.probL2toL3))),
     RAdd(RMul(p[2], params.probL2toL3), RMul(p[3], RSub(One, params.probL3toL4))),
     RAdd(RMul(p[3], params.probL3toL4), RMul(p[4], One)) >>

RECURSIVE TierVector(_, _)
TierVector(k, params) ==
  IF k <= 0 THEN <<One, Zero, Zero, Zero>>
  ELSE AdvanceTiers(TierVector(k - 1, params), params)

\* as TierValue, the share of tier 2 subtracted instead of added
TierValueLessTier2(p, params) ==
  RAdd(RAdd(RSub(RMul(p[1], params.valL1), RMul(p[2], params.valL2)),
            RMul(p[3], params.valL3)),
       RMul(p[4], params.valL4))

\* the expected value of the tier vector p
TierValue(p, params) ==
  RAdd(RAdd(RAdd(RMul(p[1], params.valL1), RMul(p[2], params.valL2)),
            RMul(p[3], params.valL3)),
       RMul(p[4], params.valL4))

getSeedEV(k, params) == TierValue(TierVector(k, params), params)

---------------------------------------------------------------------------
(* getCropMultiplier *)

BuyCount(color, params) ==
  CASE color = "purple" -> params.buyCountPurple
    [] color = "blue"   -> params.buyCountBlue
    [] color = "yellow" -> params.buyCountYellow
    [] OTHER            -> Zero

\* as getCropMultiplier, returning early for a quantity of 0 only
getCropMultiplierZeroOnly(color, params) ==
  IF BuyCount(color, params) = Zero THEN Zero
  ELSE RDiv(RMax3(params.buyCountPurple, params.buyCountBlue, params.buyCountYellow),
            BuyCount(color, params))

getCropMultiplier(color, params) ==
  IF RLe(BuyCount(color, params), Zero) THEN Zero
  ELSE RDiv(RMax3(params.buyCountPurple, params.buyCountBlue, params.buyCountYellow),
            BuyCount(color, params))

---------------------------------------------------------------------------
(* Strings *)

RECURSIVE Str(_)
Str(chars) == IF chars = <<>> THEN "" ELSE Head(chars) \o Str(Tail(chars))

Digit(d) ==
  CASE d = 0 -> "0" [] d = 1 -> "1" [] d = 2 -> "2" [] d = 3 -> "3" [] d = 4 -> "4"
    [] d = 5 -> "5" [] d = 6 -> "6" [] d = 7 -> "7" [] d = 8 -> "8" [] OTHER -> "9"

\* `${k}` of a non-negative integer
RECURSIVE NumStr(_)
NumStr(k) == IF k < 10 THEN Digit(k) ELSE NumStr(k \div 10) \o Digit(k % 10)

\* the characters that occur in the identifiers of the model, in collation order
\* (punctuation, symbols, digits, letters)
Alphabet ==
  << ":", "|", "0", "1", "2", "3", "4", "5", "6", "7", "8", "9",
     "a", "b", "d", "e", "f", "g", "h", "i", "l", "p", "r", "t", "u" >>

RankTable ==
  [c \in {Alphabet[i] : i \in 1..Len(Alphabet)} |->
     CHOOSE i \in 1..Len(Alphabet) : Alphabet[i] = c]

CharRank(c) == RankTable[c]

\* a.localeCompare(b) on character sequences: -1, 0 or 1
RECURSIVE localeCompare(_, _)
localeCompare(a, b) ==
  CASE a = <<>> /\ b = <<>> -> 0
    [] a = <<>> -> -1
    [] b = <<>> -> 1
    [] OTHER ->
         IF CharRank(Head(a)) < CharRank(Head(b)) THEN -1
         ELSE IF CharRank(Head(a)) > CharRank(Head(b)) THEN 1
         ELSE localeCompare(Tail(a), Tail(b))

SideChars(side) ==
  IF side = "left" THEN <<"l", "e", "f", "t">> ELSE <<"r", "i", "g", "h", "t">>

---------------------------------------------------------------------------
(* generateKey *)

\* the comparator handed to sort
ComparePlots(a, b) ==
  IF a.fieldId # b.fieldId THEN localeCompare(a.fieldId, b.fieldId)
  ELSE localeCompare(SideChars(a.side), SideChars(b.side))

\* p placed behind every element that does not sort after it
RECURSIVE InsertSorted(_, _)
InsertSorted(sorted, p) ==
  IF sorted = <<>> THEN <<p>>
  ELSE IF ComparePlots(Head(sorted), p) > 0 THEN <<p>> \o sorted
  ELSE <<Head(sorted)>> \o InsertSorted(Tail(sorted), p)

\* [...plots].sort(cmp): Array.prototype.sort is stable
RECURSIVE SortPlots(_)
SortPlots(ps) ==
  IF ps = <<>> THEN <<>>
  ELSE InsertSorted(SortPlots(SubSeq(ps, 1, Len(ps) - 1)), ps[Len(ps)])

PlotKeyNoLevel(p) == Str(p.fieldId) \o ":" \o p.side \o ":" \o p.color

PlotKey(p) == Str(p.fieldId) \o ":" \o p.side \o ":" \o p.color \o ":" \o NumStr(p.k)

\* sorted.map(p => `...`).join('|')
RECURSIVE JoinKeys(_)
JoinKeys(sorted) ==
  IF sorted = <<>> THEN ""
  ELSE IF Len(sorted) = 1 THEN PlotKey(sorted[1])
  ELSE PlotKey(sorted[1]) \o "|" \o JoinKeys(Tail(sorted))

generateKeyUnsorted(ps) == JoinKeys(ps)

generateKey(ps) == JoinKeys(SortPlots(ps))

---------------------------------------------------------------------------
(* solve *)

Plot(fieldId, side, color, k) ==
  [fieldId |-> fieldId, side |-> side, color |-> color, k |-> k]

\* Map<string, SolveResult> with no entry
EmptyMemo == [key \in {} |-> 0]

\* memo.set(key, value)
MemoSet(m, key, value) ==
  [x \in (DOMAIN m) \cup {key} |-> IF x = key THEN value ELSE m[x]]

\* the result of the base case: no bestMoveId property
EmptyResult == [maxEV |-> Zero, path |-> <<>>, bestMoveId |-> <<>>]

\* the running best before the first move is looked at
InitialBest == [maxEV |-> R(-1), path |-> <<>>, bestMoveId |-> <<>>]

ColorName(color) ==
  CASE color = "purple" -> "zi" [] color = "blue" -> "lan" [] OTHER -> "huang"

getPlotDisplayName(p) ==
  "[" \o Str(p.fieldId) \o " " \o (IF p.side = "left" THEN "zuo" ELSE "you")
      \o "] " \o ColorName(p.color)

StepDesc(p) == "Harvest " \o getPlotDisplayName(p) \o " (Lv." \o NumStr(p.k) \o ")"

PlotId(p) == Str(p.fieldId) \o "-" \o (IF p.side = "left" THEN "L" ELSE "R")

\* a filter that keeps only the plots behind plot i
LaterPlots(ps, i) == SubSeq(ps, i + 1, Len(ps))

\* plots.filter((_, idx) => idx !== i)
OtherPlots(ps, i) == SubSeq(ps, 1, i - 1) \o SubSeq(ps, i + 1, Len(ps))

\* otherPlots.find(p => p.fieldId === fieldId), as <<>> or <<p>>
RECURSIVE FindNeighbor(_, _)
FindNeighbor(ps, fieldId) ==
  IF ps = <<>> THEN <<>>
  ELSE IF Head(ps).fieldId = fieldId THEN <<Head(ps)>>
  ELSE FindNeighbor(Tail(ps), fieldId)

\* otherPlots.filter(p => p.fieldId !== fieldId)
RECURSIVE NonNeighbors(_, _)
NonNeighbors(ps, fieldId) ==
  IF ps = <<>> THEN <<>>
  ELSE IF Head(ps).fieldId # fieldId THEN <<Head(ps)>> \o NonNeighbors(Tail(ps), fieldId)
  ELSE NonNeighbors(Tail(ps), fieldId)

\* as GlobalUpdate, a plot of another color starting over at k = 0
GlobalUpdateReset(ps, color) ==
  [j \in 1..Len(ps) |-> [ps[j] EXCEPT !.k = IF ps[j].color # color THEN 0 ELSE @]]

\* the global update: k + 1 for every plot of another color
GlobalUpdate(ps, color) ==
  [j \in 1..Len(ps) |-> [ps[j] EXCEPT !.k = IF ps[j].color # color THEN @ + 1 ELSE @]]

\* branch A that removes the harvested plot only and keeps its neighbor
NextPlotsAKeepsNeighbor(ps, i) == GlobalUpdate(OtherPlots(ps, i), ps[i].color)

NextPlotsA(ps, i) ==
  GlobalUpdate(NonNeighbors(OtherPlots(ps, i), ps[i].fieldId), ps[i].color)

\* as LocalUpdate, the surviving neighbor raised like every other plot
LocalUpdateByOne(neighbor, color) ==
  [neighbor EXCEPT !.k = IF neighbor.color # color THEN @ + 1 ELSE @]

\* only used when the neighbor exists
\* the surviving neighbor: k + 2 if its color differs from the harvested one
LocalUpdate(neighbor, color) ==
  [neighbor EXCEPT !.k = IF neighbor.color # color THEN @ + 2 ELSE @]

NextPlotsB(ps, i) ==
  <<LocalUpdate(FindNeighbor(OtherPlots(ps, i), ps[i].fieldId)[1], ps[i].color)>>
    \o GlobalUpdate(NonNeighbors(OtherPlots(ps, i), ps[i].fieldId), ps[i].color)

\* as TotalExpectedValue, weighting branch A by 1 - B also without a neighbor
TotalAlwaysWeighted(hasNeighbor, immediateGain, evA, evB, params) ==
  RAdd(RAdd(immediateGain, RMul(RSub(One, params.probSurvival), evA)),
       RMul(params.probSurvival, evB))

\* step 4: the total expected value of harvesting a plot
TotalExpectedValue(hasNeighbor, immediateGain, evA, evB, params) ==
  IF hasNeighbor
  THEN RAdd(RAdd(immediateGain, RMul(RSub(One, params.probSurvival), evA)),
            RMul(params.probSurvival, evB))
  ELSE RAdd(immediateGain, evA)

\* what memo.set stores under the key of the state
StaleResult(best) == [best EXCEPT !.path = <<>>]

StoredResult(best) == best

\* the counters of one top-level call, threaded with the cache through the recursion
Run(m) == [memo |-> m, calls |-> 0, probes |-> 0, writes |-> 0]

RECURSIVE solve(_, _, _)
RECURSIVE SolveMoves(_, _, _, _, _)

\* as CompareWithMax, the step of the harvested plot left out of the path
CompareWithMaxNoStep(currentPlot, total, best, pathA) ==
  IF RGt(total, best.maxEV)
  THEN [maxEV |-> total, path |-> pathA, bestMoveId |-> <<PlotId(currentPlot)>>]
  ELSE best

\* step 5 of move i: the running best after comparing with the maximum
CompareWithMax(currentPlot, total, best, pathA) ==
  IF RGt(total, best.maxEV)
  THEN [maxEV |-> total,
        path |-> <<StepDesc(currentPlot)>> \o pathA,
        bestMoveId |-> <<PlotId(currentPlot)>>]
  ELSE best

\* move i once both branches are solved: steps 4 and 5, then the next move
AfterBranches(ps, params, i, best, hasNeighbor, resA, resB) ==
  SolveMoves(ps, params, i + 1,
             CompareWithMax(ps[i],
                            TotalExpectedValue(hasNeighbor,
                                               RMul(getCropMultiplier(ps[i].color, params),
                                                    getSeedEV(ps[i].k, params)),
                                               resA.res.maxEV, resB.res.maxEV, params),
                            best, resA.res.path),
             resB.run)

\* move i once branch A is solved: branch B is solved only if the neighbor exists
AfterBranchA(ps, params, i, best, hasNeighbor, resA) ==
  AfterBranches(ps, params, i, best, hasNeighbor, resA,
                IF hasNeighbor THEN solve(NextPlotsB(ps, i), params, resA.run)
                ELSE [res |-> EmptyResult, run |-> resA.run])

\* the for loop from move i on, with the running best and the cache so far
SolveMoves(ps, params, i, best, run) ==
  IF i > Len(ps) THEN [best |-> best, run |-> run]
  ELSE LET resA == solve(NextPlotsA(ps, i), params, run)
       IN  \* the call of branch A has returned, and counted itself, before move i goes on
           IF resA.run.calls > run.calls
           THEN AfterBranchA(ps, params, i, best,
                             FindNeighbor(OtherPlots(ps, i), ps[i].fieldId) # <<>>, resA)
           ELSE [best |-> best, run |-> run]

\* memo.set(stateKey, bestResult); return bestResult
StoreAndReturn(key, done) ==
  [res |-> done.best,
   run |-> [done.run EXCEPT !.memo = MemoSet(@, key, StoredResult(done.best)),
                            !.writes = @ + 1]]

\* a call that searches without looking the key up
SolveKeyedNoLookup(ps, params, run, key) ==
  StoreAndReturn(key, SolveMoves(ps, params, 1, InitialBest,
                                 [run EXCEPT !.probes = @ + 1]))

\* the call once the state key is generated: the cache probe, then the search
SolveKeyed(ps, params, run, key) ==
  IF key \in DOMAIN run.memo
  THEN [res |-> run.memo[key], run |-> [run EXCEPT !.probes = @ + 1]]
  ELSE StoreAndReturn(key, SolveMoves(ps, params, 1, InitialBest,
                                      [run EXCEPT !.probes = @ + 1]))

\* a solve without the base case in front of the cache probe
SolveWithoutBaseCase(ps, params, run) ==
  SolveKeyed(ps, params, [run EXCEPT !.calls = @ + 1], generateKey(ps))

\* solve(plots, params) on the cache run.memo: the result and the cache afterwards
solve(ps, params, run) ==
  IF Len(ps) = 0 THEN [res |-> EmptyResult, run |-> [run EXCEPT !.calls = @ + 1]]
  ELSE SolveKeyed(ps, params, [run EXCEPT !.calls = @ + 1], generateKey(ps))

---------------------------------------------------------------------------
(* solve on a heap: which arrays and plot records a call creates and writes *)

\* A heap h: h.arrays[a] is the array at address a, a sequence of record
\* addresses; h.recs[r] is the LogicPlot at address r; h.params is the params
\* object; h.keys are the keys of memo; h.args are the addresses of the arrays
\* passed to recursive calls; h.ret is the address the last expression returned;
\* h.calls records every recursive call (the caller's array and move i, the
\* argument, the branch and the depth of the call), h.depth is the number of calls of solve
\* that are on the stack below the current one.
\* The caller's array is at address 1.

\* the plots an array refers to
Deref(h, a) == [j \in 1..Len(h.arrays[a]) |-> h.recs[h.arrays[a][j]]]

\* a new array holding refs
NewArray(h, refs) == [h EXCEPT !.arrays = Append(@, refs), !.ret = Len(h.arrays) + 1]

\* no copy at all: the expression is the array itself
ArrayAlias(h, a) == [h EXCEPT !.ret = a]

\* [...plots]
ArraySpread(h, a) == NewArray(h, h.arrays[a])

RECURSIVE InsertRef(_, _, _)
InsertRef(sorted, r, recs) ==
  IF sorted = <<>> THEN <<r>>
  ELSE IF ComparePlots(recs[Head(sorted)], recs[r]) > 0 THEN <<r>> \o sorted
  ELSE <<Head(sorted)>> \o InsertRef(Tail(sorted), r, recs)

RECURSIVE SortRefs(_, _)
SortRefs(refs, recs) ==
  IF refs = <<>> THEN <<>>
  ELSE InsertRef(SortRefs(SubSeq(refs, 1, Len(refs) - 1), recs), refs[Len(refs)], recs)

\* .sort(cmp) on the array just returned: sorts that array in place
ArraySort(h) == [h EXCEPT !.arrays[h.ret] = SortRefs(@, h.recs)]

\* const sorted = [...plots].sort(cmp)
SortedCopy(h, a) == ArraySort(ArraySpread(h, a))

\* plots.filter((_, idx) => idx !== i)
FilterIndex(h, a, i) == NewArray(h, OtherPlots(h.arrays[a], i))

\* otherPlots.find(p => p.fieldId === fieldId), as <<>> or <<r>>
RECURSIVE FindRef(_, _, _)
FindRef(refs, recs, fieldId) ==
  IF refs = <<>> THEN <<>>
  ELSE IF recs[Head(refs)].fieldId = fieldId THEN <<Head(refs)>>
  ELSE FindRef(Tail(refs), recs, fieldId)

\* the elements of otherPlots.filter(p => p.fieldId !== fieldId)
RECURSIVE RefsOutsideField(_, _, _)
RefsOutsideField(refs, recs, fieldId) ==
  IF refs = <<>> THEN <<>>
  ELSE IF recs[Head(refs)].fieldId # fieldId
       THEN <<Head(refs)>> \o RefsOutsideField(Tail(refs), recs, fieldId)
  ELSE RefsOutsideField(Tail(refs), recs, fieldId)

\* a map that assigns p.k in the records of the array instead of building new ones
MapGlobalUpdateInPlace(h, a, color) ==
  [h EXCEPT !.recs = [r \in 1..Len(h.recs) |->
                        IF \E j \in 1..Len(h.arrays[a]) : h.arrays[a][j] = r
                        THEN [h.recs[r] EXCEPT !.k = IF h.recs[r].color # color
                                                     THEN @ + 1 ELSE @]
                        ELSE h.recs[r]],
             !.arrays = Append(@, h.arrays[a]),
             !.ret = Len(h.arrays) + 1]

\* array.map(p => ({...p, k: p.color !== color ? p.k + 1 : p.k})): a new array
\* of new records
MapGlobalUpdate(h, a, color) ==
  [h EXCEPT !.recs = @ \o GlobalUpdate(Deref(h, a), color),
             !.arrays = Append(@, [j \in 1..Len(h.arrays[a]) |-> Len(h.recs) + j]),
             !.ret = Len(h.arrays) + 1]

\* {...neighbor, k: ...}: a new record, at address Len(h.recs) + 1
NewRecord(h, rec) == [h EXCEPT !.recs = Append(@, rec)]

\* [r, ...mapped]: a new array of the record r and the elements of the array
\* just returned
NeighborAndOthers(h, r) == NewArray(h, <<r>> \o h.arrays[h.ret])

\* the key of the sorted copy just returned
HeapKey(h) == JoinKeys(Deref(h, h.ret))

RECURSIVE SolveOnHeap(_, _)
RECURSIVE MovesOnHeap(_, _, _)

\* solve(<the array just returned>, params)
\* called from the call on the array a, in the given branch of move i
CallOnHeap(h, a, i, branch) ==
  [SolveOnHeap([h EXCEPT !.args = @ \cup {h.ret},
                         !.calls = @ \cup {[from |-> a, move |-> i, to |-> h.ret,
                                            branch |-> branch, depth |-> h.depth + 1]},
                         !.depth = @ + 1],
               h.ret)
     EXCEPT !.depth = h.depth]

\* branch B of move i, i the index of record c: nb is the neighbor, n the array
\* nonNeighbors
BranchBOnHeap(h, a, i, nb, c, n) ==
  IF nb = <<>> THEN MovesOnHeap(h, a, i + 1)
  ELSE MovesOnHeap(
         CallOnHeap(
           NeighborAndOthers(
             MapGlobalUpdate(NewRecord(h, LocalUpdate(h.recs[nb[1]], h.recs[c].color)),
                             n, h.recs[c].color),
             Len(h.recs) + 1),
           a, i, "B"),
         a, i + 1)

\* as BranchesOnHeap, branch A solved on otherPlots, the array made just before
\* nonNeighbors
BranchesOnOtherPlots(h, a, i, nb, c) ==
  BranchBOnHeap(CallOnHeap(MapGlobalUpdate(h, h.ret - 1, h.recs[c].color), a, i, "A"),
                a, i, nb, c, h.ret)

\* branch A of move i, nonNeighbors being the array just returned
BranchesOnHeap(h, a, i, nb, c) ==
  BranchBOnHeap(CallOnHeap(MapGlobalUpdate(h, h.ret, h.recs[c].color), a, i, "A"),
                a, i, nb, c, h.ret)

\* step 2 of move i, otherPlots being the array just returned
MoveOnHeap(h, a, i, c) ==
  BranchesOnHeap(NewArray(h, RefsOutsideField(h.arrays[h.ret], h.recs, h.recs[c].fieldId)),
                 a, i, FindRef(h.arrays[h.ret], h.recs, h.recs[c].fieldId), c)

\* the for loop over the array a from move i on
MovesOnHeap(h, a, i) ==
  IF i > Len(h.arrays[a]) THEN h
  ELSE MoveOnHeap(FilterIndex(h, a, i), a, i, h.arrays[a][i])

\* memo.has(stateKey), then the loop and memo.set(stateKey, bestResult)
ProbeOnHeap(h, a, key) ==
  IF key \in h.keys THEN h
  ELSE [MovesOnHeap(h, a, 1) EXCEPT !.keys = @ \cup {key}]

\* generateKey(plots), the sorted copy being the array just returned
KeyOnHeap(h, a) == ProbeOnHeap(h, a, HeapKey(h))

\* solve(plots, params), plots the array at address a
SolveOnHeap(h, a) ==
  IF Len(h.arrays[a]) = 0 THEN h
  ELSE KeyOnHeap(SortedCopy(h, a), a)

\* the heap when the caller holds the list ps and memo holds the keys
HeapOf(ps, params, keys) ==
  [arrays |-> << [j \in 1..Len(ps) |-> j] >>, recs |-> ps, params |-> params,
   keys |-> keys, args |-> {}, calls |-> {}, depth |-> 0, ret |-> 0, done |-> FALSE]

---------------------------------------------------------------------------
(* Inputs *)

Probabilities == {Zero, Half, One}

\* `field${i + 1}` of generateFields
FieldId(n) == <<"f", "i", "e", "l", "d", Digit(n)>>

MakeParams(counts, b, vals, probs) ==
  [buyCountPurple |-> R(counts[1]), buyCountBlue |-> R(counts[2]),
   buyCountYellow |-> R(counts[3]), probSurvival |-> b,
   valL1 |-> R(vals[1]), valL2 |-> R(vals[2]), valL3 |-> R(vals[3]), valL4 |-> R(vals[4]),
   probL1toL2 |-> probs[1], probL2toL3 |-> probs[2], probL3toL4 |-> probs[3]]

\* reference quantities: equal, purple at half the largest, and none at all
CountChoices == {<<1, 1, 1>>, <<1, 2, 0>>, <<0, 0, 0>>}
\* tier values: growing, and growing from a negative tier 1
ValueChoices == {<<1, 2, 4, 8>>, <<-2, 1, 4, 8>>}
\* transition probabilities: no tier ever changes, or each check is a coin flip
ProbChoices == {<<Zero, Zero, Zero>>, <<Half, Half, Half>>}

ParamSet ==
  {MakeParams(c, b, v, q) : c \in CountChoices, b \in Probabilities,
                            v \in ValueChoices, q \in ProbChoices}

\* the plots of the solver runs: both plots of field 1 and the left plot of field 2
Slots == {<<1, "left">>, <<1, "right">>, <<2, "left">>}

PlotUniverse ==
  {Plot(FieldId(s[1]), s[2], c, k) : s \in Slots, c \in {"purple", "blue"},
                                     k \in 0..MaxStartK}

\* at most one plot per (fieldId, side)
WellFormed(ps) ==
  \A i, j \in 1..Len(ps) :
    (ps[i].fieldId = ps[j].fieldId /\ ps[i].side = ps[j].side) => i = j

ListsOver(universe, maxLen) ==
  UNION {[1..n -> universe] : n \in 0..maxLen}

\* the plot lists of the solver runs, the empty one included
PlotLists == {ps \in ListsOver(PlotUniverse, Cardinality(Slots)) : WellFormed(ps)}

---------------------------------------------------------------------------
(* The exported API as a state machine *)

NoCall ==
  [op |-> "none", plots |-> <<>>, res |-> EmptyResult, calls |-> 0, probes |-> 0,
   writes |-> 0, hit |-> FALSE, repeat |-> FALSE, params |-> <<>>]

\* the state after the top-level call solve(ps, params) has returned `out`
Returned(ps, out) ==
  /\ memo' = out.run.memo
  /\ last' = [op |-> "solve", plots |-> ps, res |-> out.res,
              calls |-> out.run.calls, probes |-> out.run.probes,
              writes |-> out.run.writes,
              hit |-> (ps # <<>> /\ generateKey(ps) \in DOMAIN memo),
              repeat |-> (last.op = "solve" /\ last.plots = ps /\ last.params = <<gameParams>>),
              params |-> <<gameParams>>]
  /\ fills' = IF out.run.writes > 0 THEN fills + 1 ELSE fills
  /\ UNCHANGED <<gameParams, plots, other, stateKey, otherKey, heap, calc, before, appVars>>

Solve(ps) == Returned(ps, solve(ps, gameParams, Run(memo)))

\* memo.clear(); `last` then describes no call on the current cache
clearMemo ==
  /\ memo' = EmptyMemo
  /\ last' = NoCall
  /\ fills' = 0
  /\ UNCHANGED <<gameParams, plots, other, stateKey, otherKey, heap, calc, before, appVars>>

\* solve called right after the cache was cleared (or before its first use)
SolveFresh ==
  /\ memo = EmptyMemo
  /\ last.op = "none"
  /\ \E ps \in PlotLists : Solve(ps)

InitSolver ==
  /\ memo = EmptyMemo
  /\ gameParams \in ParamSet
  /\ last = NoCall
  /\ fills = 0
  /\ plots = <<>>
  /\ other = <<>>
  /\ stateKey = <<>>
  /\ otherKey = <<>>
  /\ heap = <<>>
  /\ calc = <<>>
  /\ before = <<>>
  /\ fields = <<>>
  /\ fieldCount = 0
  /\ neighborCheck = <<>>
  /\ runs = <<>>
  /\ suggestion = <<>>

Next == clearMemo \/ SolveFresh

Spec == InitSolver /\ [][Next]_vars

---------------------------------------------------------------------------
(* Runs with parameters as the settings form passes them on: any number *)

\* tier values that grow, and tier values that are worth something at tier 1 only
RangeValues == {<<1, 2, 4, 8>>, <<2, 0, 0, 0>>}

\* a coin flip at each tier, and a first transition probability of 2 (a number
\* typed into the form is stored as it parses, App.tsx:237-243)
RangeProbs == {<<Half, Half, Half>>, <<R(2), Zero, Zero>>}

RangeParams ==
  {MakeParams(<<1, 1, 1>>, Half, v, q) : v \in RangeValues, q \in RangeProbs}

InitRange ==
  /\ memo = EmptyMemo
  /\ gameParams \in RangeParams
  /\ last = NoCall
  /\ fills = 0
  /\ plots = <<>>
  /\ other = <<>>
  /\ stateKey = <<>>
  /\ otherKey = <<>>
  /\ heap = <<>>
  /\ calc = <<>>
  /\ before = <<>>
  /\ fields = <<>>
  /\ fieldCount = 0
  /\ neighborCheck = <<>>
  /\ runs = <<>>
  /\ suggestion = <<>>

SpecRange == InitRange /\ [][Next]_vars

---------------------------------------------------------------------------
(* Runs on a cache that is kept across calls and across parameter changes *)

PurpleLeft1 == Plot(FieldId(1), "left", "purple", 0)
BlueRight1 == Plot(FieldId(1), "right", "blue", 0)
PurpleLeft2 == Plot(FieldId(2), "left", "purple", 0)

\* the empty list, one plot, two plots of two fields in both orders, one field's pair
WarmLists ==
  {<<>>, <<PurpleLeft1>>, <<PurpleLeft1, PurpleLeft2>>, <<PurpleLeft2, PurpleLeft1>>,
   <<PurpleLeft1, BlueRight1>>}

\* two parameter records that differ in the reference quantities only
WarmParams ==
  {MakeParams(c, Half, <<1, 2, 4, 8>>, <<Half, Half, Half>>) :
     c \in {<<1, 1, 1>>, <<1, 2, 0>>}}

\* the caller changes a parameter; nothing clears the cache
updateParam ==
  /\ \E p \in WarmParams : p # gameParams /\ gameParams' = p
  /\ UNCHANGED <<memo, last, fills, plots, other, stateKey, otherKey, heap, calc, before, appVars>>

\* solve on whatever the cache holds
SolveWarm ==
  \E ps \in WarmLists :
    /\ fills < MaxFills \/ ps = <<>> \/ generateKey(ps) \in DOMAIN memo
    /\ Solve(ps)

InitWarm ==
  /\ memo = EmptyMemo
  /\ gameParams \in WarmParams
  /\ last = NoCall
  /\ fills = 0
  /\ plots = <<>>
  /\ other = <<>>
  /\ stateKey = <<>>
  /\ otherKey = <<>>
  /\ heap = <<>>
  /\ calc = <<>>
  /\ before = <<>>
  /\ fields = <<>>
  /\ fieldCount = 0
  /\ neighborCheck = <<>>
  /\ runs = <<>>
  /\ suggestion = <<>>

NextWarm == clearMemo \/ updateParam \/ SolveWarm

SpecWarm == InitWarm /\ [][NextWarm]_vars

---------------------------------------------------------------------------
(* Encoder runs: generateKey applied to two plot lists *)

\* a field identifier that spells the end of one record and the start of the next
InjectedId ==
  FieldId(1) \o <<":">> \o SideChars("left")
    \o <<":", "p", "u", "r", "p", "l", "e", ":", "0", "|">> \o FieldId(2)

KeyFieldIds == {FieldId(1), FieldId(2), InjectedId}

KeyBasePlot == Plot(FieldId(1), "left", "purple", 0)

Differences(p, q) ==
  Cardinality({a \in {"fieldId", "side", "color", "k"} : p[a] # q[a]})

\* the base plot and every plot that differs from it in one attribute
KeyPlots ==
  {p \in {Plot(f, s, c, k) : f \in KeyFieldIds, s \in {"left", "right"},
                             c \in {"purple", "blue"}, k \in {0, 1}} :
     Differences(p, KeyBasePlot) <= 1}

\* every list over them, the lists with two plots of one (fieldId, side) included
KeyLists == ListsOver(KeyPlots, MaxKeyLen)

EncodePlots ==
  /\ stateKey = <<>>
  /\ stateKey' = <<generateKey(plots)>>
  /\ UNCHANGED <<memo, gameParams, last, fills, plots, other, otherKey, heap, calc, before, appVars>>

EncodeOther ==
  /\ otherKey = <<>>
  /\ otherKey' = <<generateKey(other)>>
  /\ UNCHANGED <<memo, gameParams, last, fills, plots, other, stateKey, heap, calc, before, appVars>>

InitKey ==
  /\ memo = EmptyMemo
  /\ gameParams = <<>>
  /\ last = NoCall
  /\ fills = 0
  /\ plots \in KeyLists
  /\ other \in KeyLists
  /\ stateKey = <<>>
  /\ otherKey = <<>>
  /\ heap = <<>>
  /\ calc = <<>>
  /\ before = <<>>
  /\ fields = <<>>
  /\ fieldCount = 0
  /\ neighborCheck = <<>>
  /\ runs = <<>>
  /\ suggestion = <<>>

NextKey == EncodePlots \/ EncodeOther

SpecKey == InitKey /\ [][NextKey]_vars

---------------------------------------------------------------------------
(* Heap runs: top-level calls of solve on the caller's array *)

Reverse(ps) == [j \in 1..Len(ps) |-> ps[Len(ps) + 1 - j]]

\* the lists of a later call on the same cache: the same list, its reversal, and
\* the list without its first plot
LaterLists(ps) == {ps, Reverse(ps)} \cup (IF ps = <<>> THEN {} ELSE {Tail(ps)})

\* solve(plots, gameParams) runs to its return
SolveHeap ==
  /\ heap.done = FALSE
  /\ heap' = [SolveOnHeap(heap, 1) EXCEPT !.done = TRUE]
  /\ memo' = solve(plots, gameParams, Run(memo)).run.memo
  /\ fills' = fills + 1
  /\ UNCHANGED <<gameParams, last, plots, other, stateKey, otherKey, calc, before, appVars>>

\* the caller builds another list and calls again without clearing the cache
CallAgain ==
  /\ heap.done = TRUE
  /\ fills < MaxFills
  /\ \E ps \in LaterLists(plots) :
       /\ plots' = ps
       /\ heap' = HeapOf(ps, gameParams, heap.keys)
  /\ UNCHANGED <<memo, gameParams, last, fills, other, stateKey, otherKey, calc, before, appVars>>

InitHeap ==
  /\ memo = EmptyMemo
  /\ gameParams \in WarmParams
  /\ last = NoCall
  /\ fills = 0
  /\ plots \in PlotLists
  /\ other = <<>>
  /\ stateKey = <<>>
  /\ otherKey = <<>>
  /\ heap = HeapOf(plots, gameParams, {})
  /\ calc = <<>>
  /\ before = <<>>
  /\ fields = <<>>
  /\ fieldCount = 0
  /\ neighborCheck = <<>>
  /\ runs = <<>>
  /\ suggestion = <<>>

NextHeap == SolveHeap \/ CallAgain

SpecHeap == InitHeap /\ [][NextHeap]_vars

\* a call of solve that was made returns, nothing cancels or suspends it: weak
\* fairness of SolveHeap, with ENABLED <<SolveHeap>>_vars written out (SolveHeap
\* changes heap.done, so it is enabled exactly while heap.done = FALSE)
SpecHeapFair == SpecHeap /\ ([]<>(heap.done = TRUE) \/ []<><<SolveHeap>>_vars)

---------------------------------------------------------------------------
(* Raise runs: solve on a cleared cache before and after one tier value grows *)

\* how often one behaviour raises a tier value
MaxRaises == 1

TierFields == {"valL1", "valL2", "valL3", "valL4"}

\* by how much a tier value is raised
Raises == {Half, R(3)}

\* the caller's params with the value of tier t raised by d, all else equal
RaiseTier(p, t, d) == [p EXCEPT ![t] = RAdd(@, d)]

\* reference quantities >= 0, B and the transition probabilities in [0, 1]
RaiseParams ==
  {MakeParams(c, b, v, <<Half, Half, Half>>) :
     c \in {<<1, 1, 1>>, <<1, 2, 0>>}, b \in {Zero, Half}, v \in ValueChoices}

\* every plot freshly planted; later tiers are reached by the k of successor states
RaiseLists == {ps \in PlotLists : \A i \in 1..Len(ps) : ps[i].k = 0}

\* solve(plots, params) on the cleared cache
SolveRaise ==
  /\ memo = EmptyMemo
  /\ last.op = "none"
  /\ Solve(plots)

\* the caller raises one tier value after a solve under the current params
raiseTierValue ==
  /\ last.op = "solve"
  /\ last.params = <<gameParams>>
  /\ before.raises < MaxRaises
  /\ \E t \in TierFields, d \in Raises : gameParams' = RaiseTier(gameParams, t, d)
  /\ before' = [result |-> <<last.res>>, raises |-> before.raises + 1]
  /\ UNCHANGED <<memo, last, fills, plots, other, stateKey, otherKey, heap, calc, appVars>>

InitRaise ==
  /\ memo = EmptyMemo
  /\ gameParams \in RaiseParams
  /\ last = NoCall
  /\ fills = 0
  /\ plots \in RaiseLists
  /\ other = <<>>
  /\ stateKey = <<>>
  /\ otherKey = <<>>
  /\ heap = <<>>
  /\ calc = <<>>
  /\ before = [result |-> <<>>, raises |-> 0]
  /\ fields = <<>>
  /\ fieldCount = 0
  /\ neighborCheck = <<>>
  /\ runs = <<>>
  /\ suggestion = <<>>

NextRaise == clearMemo \/ SolveRaise \/ raiseTierValue

SpecRaise == InitRaise /\ [][NextRaise]_vars

---------------------------------------------------------------------------
(* Calculator runs: getSeedEV pass by pass, getCropMultiplier, one-plot solves *)

\* the largest number of checks k passed to getSeedEV
MaxChecks == 4

\* probabilities a caller may pass, one of them outside [0, 1]
CalcProbabilities == Probabilities \cup {R(2)}

\* reference quantities: positive, zero and negative ones
CalcCounts == {<<1, 1, 1>>, <<1, 2, 0>>, <<2, -1, 4>>, <<-1, -2, 0>>}

\* tier values: growing, growing from a negative tier 1, and
\* neither growing nor positive
CalcValues == {<<0, 10, 4, 8>>, <<-2, 1, 4, 8>>, <<8, -2, 4, 1>>}

\* every triple of probabilities with equal quantities, every choice of
\* quantities with coin flips
CalcParams ==
  {MakeParams(<<1, 1, 1>>, Half, v, <<q1, q2, q3>>) :
     v \in CalcValues,
     q1 \in CalcProbabilities, q2 \in CalcProbabilities, q3 \in CalcProbabilities}
  \cup {MakeParams(c, Half, v, <<Half, Half, Half>>) : c \in CalcCounts, v \in CalcValues}

CropColors == {"purple", "blue", "yellow"}

\* no call of a helper under way or returned
NoCalc ==
  [op |-> "none", k |-> 0, i |-> 0, p |-> <<>>, from |-> <<>>, color |-> "",
   out |-> <<>>]

CalcIdle == calc.op = "none" \/ calc.out # <<>>

\* getSeedEV(k, params) entered: p = [1.0, 0.0, 0.0, 0.0], i = 0
callGetSeedEV ==
  /\ CalcIdle
  /\ \E k \in 0..MaxChecks :
       calc' = [NoCalc EXCEPT !.op = "getSeedEV", !.k = k,
                              !.p = <<One, Zero, Zero, Zero>>]
  /\ UNCHANGED <<memo, gameParams, last, fills, plots, other, stateKey, otherKey, heap,
                 before, appVars>>

\* one pass of the loop: nextP computed from p, p = nextP, i++
\* (`from` keeps the p the pass started with)
advanceSeed ==
  /\ calc.op = "getSeedEV"
  /\ calc.out = <<>>
  /\ calc.i < calc.k
  /\ calc' = [calc EXCEPT !.p = AdvanceTiers(calc.p, gameParams), !.from = calc.p,
                          !.i = @ + 1]
  /\ UNCHANGED <<memo, gameParams, last, fills, plots, other, stateKey, otherKey, heap,
                 before, appVars>>

\* the loop left: ev computed and returned
returnSeedEV ==
  /\ calc.op = "getSeedEV"
  /\ calc.out = <<>>
  /\ ~(calc.i < calc.k)
  /\ calc' = [calc EXCEPT !.out = <<TierValue(calc.p, gameParams)>>]
  /\ UNCHANGED <<memo, gameParams, last, fills, plots, other, stateKey, otherKey, heap,
                 before, appVars>>

\* getCropMultiplier(color, params), called and returned
callGetCropMultiplier ==
  /\ CalcIdle
  /\ \E color \in CropColors :
       calc' = [NoCalc EXCEPT !.op = "getCropMultiplier", !.color = color,
                              !.out = <<getCropMultiplier(color, gameParams)>>]
  /\ UNCHANGED <<memo, gameParams, last, fills, plots, other, stateKey, otherKey, heap,
                 before, appVars>>

\* one plot of any color, fresh or checked up to MaxChecks times
CalcPlots ==
  {Plot(FieldId(1), "left", c, k) : c \in CropColors, k \in {0, MaxChecks}}

\* solve on a cleared cache for a single plot: one immediate gain, no neighbor
solveOne ==
  /\ memo = EmptyMemo
  /\ last.op = "none"
  /\ \E plot \in CalcPlots : Solve(<<plot>>)

InitCalc ==
  /\ memo = EmptyMemo
  /\ gameParams \in CalcParams
  /\ last = NoCall
  /\ fills = 0
  /\ plots = <<>>
  /\ other = <<>>
  /\ stateKey = <<>>
  /\ otherKey = <<>>
  /\ heap = <<>>
  /\ calc = NoCalc
  /\ before = <<>>
  /\ fields = <<>>
  /\ fieldCount = 0
  /\ neighborCheck = <<>>
  /\ runs = <<>>
  /\ suggestion = <<>>

NextCalc ==
  \/ callGetSeedEV \/ advanceSeed \/ returnSeedEV \/ callGetCropMultiplier
  \/ solveOne \/ clearMemo

SpecCalc == InitCalc /\ [][NextCalc]_vars

---------------------------------------------------------------------------
(* The App component: its handlers and the deferred runSolver *)

\* In these runs heap.fieldObjs[f] is the FieldConfig object at address f, its
\* left and right the addresses of PlotConfig objects, and heap.plotObjs[r] is
\* the PlotConfig at address r.  The arrays themselves are never written, so an
\* array is the sequence of its addresses.

\* number of runSolver invocations, the one at mount included, up to which the
\* user's handlers are taken
MaxRuns == 4

\* the field counts of the model
FieldCounts == {1}

\* one element of generateFields: a purple left and a blue right plot, both
\* active at k = 0
GenerateField(h, n) ==
  [h EXCEPT !.plotObjs = @ \o << [color |-> "purple", active |-> TRUE, k |-> 0],
                                 [color |-> "blue", active |-> TRUE, k |-> 0] >>,
             !.fieldObjs = Append(@, [id |-> FieldId(n),
                                      left |-> Len(h.plotObjs) + 1,
                                      right |-> Len(h.plotObjs) + 2])]

\* the heap after generateFields(count) has built the fields n..count
RECURSIVE generateFields(_, _, _)
generateFields(h, n, count) ==
  IF n > count THEN h ELSE generateFields(GenerateField(h, n), n + 1, count)

\* the array generateFields(count) returns when built on the heap h
GeneratedArray(h, count) == [j \in 1..count |-> Len(h.fieldObjs) + j]

EmptyAppHeap == [fieldObjs |-> <<>>, plotObjs |-> <<>>]

\* the address of the plot on a side of the field at index idx of the array
PlotRef(h, arr, idx, side) ==
  IF side = "left" THEN h.fieldObjs[arr[idx]].left ELSE h.fieldObjs[arr[idx]].right

OtherSide(side) == IF side = "left" THEN "right" ELSE "left"

\* the plots one field pushes: left first, then right, if active
FieldPlots(h, f) ==
  (IF h.plotObjs[f.left].active
   THEN <<Plot(f.id, "left", h.plotObjs[f.left].color, h.plotObjs[f.left].k)>> ELSE <<>>)
  \o
  (IF h.plotObjs[f.right].active
   THEN <<Plot(f.id, "right", h.plotObjs[f.right].color, h.plotObjs[f.right].k)>> ELSE <<>>)

\* fields.forEach(...) of runSolver: the logicPlots of an array of fields
RECURSIVE LogicPlots(_, _)
LogicPlots(h, arr) ==
  IF arr = <<>> THEN <<>>
  ELSE FieldPlots(h, h.fieldObjs[Head(arr)]) \o LogicPlots(h, Tail(arr))

\* the effect on [fields, params]: runSolver starts, captures the array and the
\* params of this render and waits for its timer
StartRun(arr, p) ==
  runs' = [pending |-> Append(runs.pending, [fields |-> arr, params |-> p]),
           started |-> runs.started + 1]

\* memo after a run that does not clear it
UnclearedMemo(m) == m

\* memo after clearMemo()
ClearedMemo(m) == EmptyMemo

\* const res = solve(logicPlots, params); setSuggestion(res)
Suggest(ps, p, m, out) ==
  /\ memo' = out.run.memo
  /\ suggestion' = <<out.res>>
  /\ last' = [op |-> "solve", plots |-> ps, res |-> out.res,
              calls |-> out.run.calls, probes |-> out.run.probes,
              writes |-> out.run.writes,
              hit |-> (generateKey(ps) \in DOMAIN m),
              repeat |-> FALSE, params |-> <<p>>]

\* as ResumeRun, the else branch leaving the suggestion as it is
ResumeRunKeepsSuggestion(ps, p, m) ==
  IF Len(ps) > 0 THEN Suggest(ps, p, m, solve(ps, p, Run(m)))
  ELSE /\ memo' = m
       /\ suggestion' = suggestion
       /\ last' = [NoCall EXCEPT !.op = "skip"]

\* the block of runSolver behind the await, memo being m once cleared
ResumeRun(ps, p, m) ==
  IF Len(ps) > 0 THEN Suggest(ps, p, m, solve(ps, p, Run(m)))
  ELSE /\ memo' = m
       /\ suggestion' = <<>>
       /\ last' = [NoCall EXCEPT !.op = "skip"]

\* the timer of the run that has waited longest fires: the run clears the cache,
\* reads its fields as they are now, solves and sets the suggestion
runSolver ==
  /\ runs.pending # <<>>
  /\ ResumeRun(LogicPlots(heap, Head(runs.pending).fields), Head(runs.pending).params,
               ClearedMemo(memo))
  /\ runs' = [runs EXCEPT !.pending = Tail(@)]
  /\ UNCHANGED <<gameParams, fills, plots, other, stateKey, otherKey, heap, calc, before,
                 fields, fieldCount, neighborCheck>>

\* updateParam with a number: setParams, and the effect starts a run
updateParamApp ==
  /\ runs.started < MaxRuns
  /\ \E p \in WarmParams :
       /\ p # gameParams
       /\ gameParams' = p
       /\ StartRun(fields, p)
  /\ UNCHANGED <<memo, last, fills, plots, other, stateKey, otherKey, heap, calc, before,
                 fields, fieldCount, neighborCheck, suggestion>>

\* setFields(generateFields(count))
SetGeneratedFields(count) ==
  /\ heap' = generateFields(heap, 1, count)
  /\ fields' = GeneratedArray(heap, count)
  /\ StartRun(GeneratedArray(heap, count), gameParams)

handleFieldCountChange ==
  /\ runs.started < MaxRuns
  /\ \E count \in FieldCounts :
       /\ fieldCount' = count
       /\ SetGeneratedFields(count)
  /\ neighborCheck' = <<>>
  /\ UNCHANGED <<memo, gameParams, last, fills, plots, other, stateKey, otherKey, calc, before,
                 suggestion>>

\* the user confirms the reset
handleReset ==
  /\ runs.started < MaxRuns
  /\ SetGeneratedFields(fieldCount)
  /\ neighborCheck' = <<>>
  /\ UNCHANGED <<memo, gameParams, last, fills, plots, other, stateKey, otherKey, calc, before,
                 fieldCount, suggestion>>

\* every field inactive and no neighbor check open
GameOver ==
  /\ \A j \in 1..Len(fields) :
       /\ ~heap.plotObjs[heap.fieldObjs[fields[j]].left].active
       /\ ~heap.plotObjs[heap.fieldObjs[fields[j]].right].active
  /\ neighborCheck = <<>>

\* the timer of the auto-reset effect fires
autoReset ==
  /\ GameOver
  /\ SetGeneratedFields(fieldCount)
  /\ UNCHANGED <<memo, gameParams, last, fills, plots, other, stateKey, otherKey, calc, before,
                 fieldCount, neighborCheck, suggestion>>

\* updatePlotConfig(fieldIndex, side, {color}): the field object gets a new plot
\* object; the color buttons exist for an active plot at k = 0
updatePlotConfig ==
  /\ runs.started < MaxRuns
  /\ \E idx \in 1..Len(fields), side \in {"left", "right"}, c \in {"purple", "blue"} :
       /\ heap.plotObjs[PlotRef(heap, fields, idx, side)].active
       /\ heap.plotObjs[PlotRef(heap, fields, idx, side)].k = 0
       /\ heap' = [heap EXCEPT
                     !.plotObjs = Append(@, [heap.plotObjs[PlotRef(heap, fields, idx, side)]
                                               EXCEPT !.color = c]),
                     !.fieldObjs[fields[idx]][side] = Len(heap.plotObjs) + 1]
  /\ StartRun(fields, gameParams)
  /\ UNCHANGED <<memo, gameParams, last, fills, plots, other, stateKey, otherKey, calc, before,
                 fields, fieldCount, neighborCheck, suggestion>>

\* the plot addresses of the fields of an array
PlotRefs(h, arr) ==
  {h.fieldObjs[arr[j]].left : j \in 1..Len(arr)}
    \cup {h.fieldObjs[arr[j]].right : j \in 1..Len(arr)}

\* the heap after applyGlobalUpdate(currentFields, harvestedColor): every field
\* object is copied, the plot objects are shared and k is raised in them
GlobalUpdateOnHeap(h, arr, harvestedColor) ==
  [h EXCEPT
     !.plotObjs = [r \in 1..Len(h.plotObjs) |->
                     IF /\ r \in PlotRefs(h, arr)
                        /\ h.plotObjs[r].active
                        /\ h.plotObjs[r].color # harvestedColor
                     THEN [h.plotObjs[r] EXCEPT !.k = @ + 1]
                     ELSE h.plotObjs[r]],
     !.fieldObjs = @ \o [j \in 1..Len(arr) |-> h.fieldObjs[arr[j]]]]

\* applyGlobalUpdate on the heap h: setFields(finalFields)
applyGlobalUpdate(h, arr, harvestedColor) ==
  /\ heap' = GlobalUpdateOnHeap(h, arr, harvestedColor)
  /\ fields' = [j \in 1..Len(arr) |-> Len(h.fieldObjs) + j]
  /\ StartRun([j \in 1..Len(arr) |-> Len(h.fieldObjs) + j], gameParams)

\* handleHarvestClick once the plot is marked inactive in the heap h
HarvestMarked(h, idx, side, plot, neighbor) ==
  IF neighbor.active
  THEN /\ heap' = h
       /\ fields' = fields
       /\ StartRun(fields, gameParams)
       /\ neighborCheck' = << [targetFieldIdx |-> idx, neighborSide |-> OtherSide(side),
                               harvestedColor |-> plot.color] >>
  ELSE /\ applyGlobalUpdate(h, fields, plot.color)
       /\ neighborCheck' = neighborCheck

\* the harvest button of an active plot
handleHarvestClick ==
  /\ runs.started < MaxRuns
  /\ \E idx \in 1..Len(fields), side \in {"left", "right"} :
       /\ heap.plotObjs[PlotRef(heap, fields, idx, side)].active
       /\ HarvestMarked([heap EXCEPT !.plotObjs[PlotRef(heap, fields, idx, side)].active = FALSE],
                        idx, side,
                        heap.plotObjs[PlotRef(heap, fields, idx, side)],
                        heap.plotObjs[PlotRef(heap, fields, idx, OtherSide(side))])
  /\ UNCHANGED <<memo, gameParams, last, fills, plots, other, stateKey, otherKey, calc, before,
                 fieldCount, suggestion>>

\* handleNeighborResult with the neighbor plot at address r
NeighborResult(survived, r, harvestedColor) ==
  IF survived
  THEN applyGlobalUpdate(
         IF heap.plotObjs[r].color # harvestedColor
         THEN [heap EXCEPT !.plotObjs[r].k = @ + 1] ELSE heap,
         fields, harvestedColor)
  ELSE applyGlobalUpdate([heap EXCEPT !.plotObjs[r].active = FALSE], fields, harvestedColor)

\* a button of the neighbor check
handleNeighborResult ==
  /\ runs.started < MaxRuns
  /\ neighborCheck # <<>>
  /\ \E survived \in BOOLEAN :
       NeighborResult(survived,
                      PlotRef(heap, fields, neighborCheck[1].targetFieldIdx,
                              neighborCheck[1].neighborSide),
                      neighborCheck[1].harvestedColor)
  /\ neighborCheck' = <<>>
  /\ UNCHANGED <<memo, gameParams, last, fills, plots, other, stateKey, otherKey, calc, before,
                 fieldCount, suggestion>>

InitApp ==
  /\ memo = EmptyMemo
  /\ gameParams \in WarmParams
  /\ last = NoCall
  /\ fills = 0
  /\ plots = <<>>
  /\ other = <<>>
  /\ stateKey = <<>>
  /\ otherKey = <<>>
  /\ calc = <<>>
  /\ before = <<>>
  /\ fieldCount \in FieldCounts
  /\ heap = generateFields(EmptyAppHeap, 1, fieldCount)
  /\ fields = GeneratedArray(EmptyAppHeap, fieldCount)
  /\ neighborCheck = <<>>
  /\ runs = [pending |-> << [fields |-> fields, params |-> gameParams] >>, started |-> 1]
  /\ suggestion = <<>>

NextApp ==
  \/ runSolver
  \/ updateParamApp
  \/ handleFieldCountChange
  \/ handleReset
  \/ autoReset
  \/ updatePlotConfig
  \/ handleHarvestClick
  \/ handleNeighborResult

SpecApp == InitApp /\ [][NextApp]_vars

\* SpecApp with weak fairness of runSolver: a timer that was set fires, and
\* runSolver is enabled when a run is pending
SpecAppFair == SpecApp /\ ([]<>(runs.pending = <<>>) \/ []<><<runSolver>>_vars)

---------------------------------------------------------------------------
(* The recurrence the claims compare solve with: no cache, a plain maximum *)

RECURSIVE Value(_, _)
RECURSIVE MaxTotalFrom(_, _, _)

\* gain_i
Gain(ps, params, i) ==
  RMul(getCropMultiplier(ps[i].color, params), getSeedEV(ps[i].k, params))

HasNeighbor(ps, i) == \E j \in 1..Len(ps) : j # i /\ ps[j].fieldId = ps[i].fieldId

\* total_i
Total(ps, params, i) ==
  IF HasNeighbor(ps, i)
  THEN RAdd(RAdd(Gain(ps, params, i),
                 RMul(RSub(One, params.probSurvival), Value(NextPlotsA(ps, i), params))),
            RMul(params.probSurvival, Value(NextPlotsB(ps, i), params)))
  ELSE RAdd(Gain(ps, params, i), Value(NextPlotsA(ps, i), params))

\* the maximum of total_i .. total_n
MaxTotalFrom(ps, params, i) ==
  IF i = Len(ps) THEN Total(ps, params, i)
  ELSE RMax2(Total(ps, params, i), MaxTotalFrom(ps, params, i + 1))

\* V: 0 on the empty list, else the maximum of the totals
Value(ps, params) == IF ps = <<>> THEN Zero ELSE MaxTotalFrom(ps, params, 1)

\* the plots whose total is the maximum
BestMoves(ps, params) ==
  {i \in 1..Len(ps) : Total(ps, params, i) = Value(ps, params)}

FirstBestMove(ps, params) ==
  CHOOSE i \in BestMoves(ps, params) : \A j \in BestMoves(ps, params) : i <= j

\* the last call was solve on a non-empty list, started on the cleared cache:
\* it is the first call since the last clear that wrote the cache
SolvedFresh == last.op = "solve" /\ last.plots # <<>> /\ last.writes > 0 /\ fills = 1

LastParams == last.params[1]

---------------------------------------------------------------------------
(* Claims settled under Spec: solve on the cleared cache *)

\* C1: from a cleared cache, for every non-empty well-formed plot list and any
\* parameters, solve returns maxEV = the maximum over the plots i of total_i,
\* the value of the recurrence evaluated without a cache.
C1_MaxEVIsMaxOfTotals ==
  (SolvedFresh /\ WellFormed(last.plots))
    => last.res.maxEV = Value(last.plots, LastParams)

\* the scenario of C2: two plots of one field, purple and blue, both k = 0,
\* B = 0, no tier transition, equal reference quantities
TwoPlotScenario ==
  /\ last.op = "solve"
  /\ Len(last.plots) = 2
  /\ last.plots[1].fieldId = last.plots[2].fieldId
  /\ {last.plots[1].color, last.plots[2].color} = {"purple", "blue"}
  /\ last.plots[1].k = 0 /\ last.plots[2].k = 0
  /\ LastParams.probSurvival = Zero
  /\ LastParams.probL1toL2 = Zero /\ LastParams.probL2toL3 = Zero
  /\ LastParams.probL3toL4 = Zero
  /\ LastParams.buyCountPurple = LastParams.buyCountBlue
  /\ LastParams.buyCountBlue = LastParams.buyCountYellow

\* C2: in the two-plot scenario solve returns maxEV = twice the tier-1 value.
C2_TwoPlotsTwiceTier1 ==
  TwoPlotScenario => last.res.maxEV = RMul(R(2), LastParams.valL1)

\* C3: for every non-empty plot list and any parameters the result is complete:
\* bestMoveId is defined and names a plot of the list, and path is non-empty;
\* bestMoveId is undefined only for the empty list.
C3_ResultComplete ==
  last.op = "solve" =>
    /\ last.plots # <<>> =>
         /\ last.res.bestMoveId # <<>>
         /\ \E i \in 1..Len(last.plots) : last.res.bestMoveId = <<PlotId(last.plots[i])>>
         /\ last.res.path # <<>>
    /\ last.res.bestMoveId = <<>> => last.plots = <<>>

\* C4: when several plots achieve the maximal total, bestMoveId is the one that
\* comes first in the list passed to the call.
C4_FirstOfTiedWins ==
  (last.op = "solve" /\ Cardinality(BestMoves(last.plots, LastParams)) >= 2)
    => last.res.bestMoveId
         = <<PlotId(last.plots[FirstBestMove(last.plots, LastParams)])>>

\* C2 as amended: with B = 0 the neighbor always withers and leaves with the
\* harvested plot, so one harvest is made and maxEV is the tier-1 value once:
\* at multiplier 1 when the equal quantities are positive (and -1, the initial
\* maximum, when the tier-1 value is not above it), 0 when they are not positive.
C2_TwoPlotsOnceTier1 ==
  TwoPlotScenario
    => last.res.maxEV
         = IF RLe(LastParams.buyCountPurple, Zero) THEN Zero
           ELSE IF RGt(LastParams.valL1, R(-1)) THEN LastParams.valL1
           ELSE R(-1)

C2_Witness ==
  /\ TwoPlotScenario
  /\ RGt(LastParams.buyCountPurple, Zero)
  /\ RGt(LastParams.valL1, Zero)
  /\ last.res.maxEV = LastParams.valL1

\* the same plots in the order generateKey sorts them into, solved on a cleared cache
SortedResult == solve(SortPlots(last.plots), LastParams, Run(EmptyMemo)).res

\* C8 as stated: two computations for lists with the same canonical key return
\* the same SolveResult (maxEV, path and bestMoveId).
C8_SameKeySameResult == SolvedFresh => last.res = SortedResult

\* C8 as amended: they return the same maxEV (path and bestMoveId follow the
\* order of each list when several plots tie).
C8_SameKeySameMaxEV == SolvedFresh => last.res.maxEV = SortedResult.maxEV

C8_Witness ==
  /\ SolvedFresh
  /\ last.plots # SortPlots(last.plots)
  /\ generateKey(last.plots) = generateKey(SortPlots(last.plots))
  /\ last.res.bestMoveId # SortedResult.bestMoveId
  /\ last.res.maxEV = SortedResult.maxEV

---------------------------------------------------------------------------
(* Claims settled under SpecWarm: solve on a cache that earlier calls filled *)

\* the result solve returns for the last call's arguments on a cleared cache
FreshResult == solve(last.plots, LastParams, Run(EmptyMemo)).res

\* the step is a top-level call of solve
SolveStep == last'.op = "solve" /\ gameParams' = gameParams

\* C5: solve called twice in a row on the same plot list with the same
\* parameters, the cache not cleared in between, returns the same result both
\* times, whatever the cache held before the first call.
C5_RepeatedSolveSameResult ==
  [][(SolveStep /\ last.op = "solve" /\ last'.plots = last.plots
        /\ last'.params = last.params)
       => last'.res = last.res]_vars

\* a repeated call whose result is not what a cleared cache would have given
C5_Witness ==
  /\ last.op = "solve"
  /\ last.repeat
  /\ last.plots # <<>>
  /\ last.res # FreshResult

\* C6: solve on the empty list returns maxEV 0, an empty path and no bestMoveId,
\* for any parameters and any cache contents, without reading or writing the cache.
C6_EmptyListBaseCase ==
  (last.op = "solve" /\ last.plots = <<>>)
    => /\ last.res = [maxEV |-> Zero, path |-> <<>>, bestMoveId |-> <<>>]
       /\ last.calls = 1
       /\ last.probes = 0
       /\ last.writes = 0

C6_Witness ==
  /\ last.op = "solve"
  /\ last.plots = <<>>
  /\ memo # EmptyMemo
  /\ "" \notin DOMAIN memo

\* C7: a call whose key is in the cache returns the stored result unchanged,
\* whatever the parameters, makes no recursive call and leaves the cache as it
\* is; a call whose key is absent leaves the key mapped to the result it returns.
C7_CachedResultReturned ==
  [][(SolveStep /\ last'.plots # <<>>)
       => IF generateKey(last'.plots) \in DOMAIN memo
          THEN /\ last'.res = memo[generateKey(last'.plots)]
               /\ last'.calls = 1
               /\ memo' = memo
          ELSE /\ generateKey(last'.plots) \in DOMAIN memo'
               /\ memo'[generateKey(last'.plots)] = last'.res]_vars

\* a hit that returns what other parameters had computed
C7_Witness ==
  /\ last.op = "solve"
  /\ last.hit
  /\ last.calls = 1
  /\ last.res = memo[generateKey(last.plots)]
  /\ last.res # FreshResult

---------------------------------------------------------------------------
(* Claims settled under SpecKey: the state key *)

Occurrences(ps, p) == Cardinality({i \in 1..Len(ps) : ps[i] = p})

\* the two lists hold the same (fieldId, side, color, k) tuples, each as often
SameTuples(ps, qs) ==
  /\ Len(ps) = Len(qs)
  /\ \A i \in 1..Len(ps) : Occurrences(ps, ps[i]) = Occurrences(qs, ps[i])

BothEncoded == stateKey # <<>> /\ otherKey # <<>>

HasDelimiter(fieldId) == \E i \in 1..Len(fieldId) : fieldId[i] \in {":", "|"}

PlainIds(ps) == \A i \in 1..Len(ps) : ~HasDelimiter(ps[i].fieldId)

\* C9 as stated: every permutation of every plot list has the same key.
C9_PermutationInvariant ==
  (BothEncoded /\ SameTuples(plots, other)) => stateKey = otherKey

\* no two plots of the list compare equal under the comparator of the sort
Distinguished(ps) ==
  \A i, j \in 1..Len(ps) : i # j => ComparePlots(ps[i], ps[j]) # 0

\* C9 as amended: every permutation of a plot list in which no two plots
\* compare equal under the sort's comparator (fieldId, then side) has the same
\* key.
C9_PermutationInvariantDistinguished ==
  (BothEncoded /\ SameTuples(plots, other) /\ Distinguished(plots))
    => stateKey = otherKey

C9_Witness ==
  /\ BothEncoded
  /\ SameTuples(plots, other)
  /\ Distinguished(plots)
  /\ plots # other
  /\ stateKey = otherKey

\* C10 as stated: two plot lists that differ in a tuple have different keys.
C10_Injective ==
  (BothEncoded /\ ~SameTuples(plots, other)) => stateKey # otherKey

\* C10 as amended: two plot lists that differ in a tuple have different keys
\* when no field identifier contains ':' or '|'.
C10_InjectivePlainIds ==
  (BothEncoded /\ ~SameTuples(plots, other) /\ PlainIds(plots) /\ PlainIds(other))
    => stateKey # otherKey

\* two lists that differ in the level of one plot only
C10_Witness ==
  /\ BothEncoded
  /\ PlainIds(plots) /\ PlainIds(other)
  /\ Len(plots) = 2 /\ Len(other) = 2
  /\ plots[1] = other[1]
  /\ Differences(plots[2], other[2]) = 1
  /\ plots[2].k # other[2].k
  /\ stateKey # otherKey

---------------------------------------------------------------------------
(* Claims settled under SpecHeap: the frame of solve *)

\* the records of the caller's array are 1..Len(plots); an array passed to a
\* recursive call is new and holds new records only
NewArguments ==
  \A a \in heap.args :
    /\ a # 1
    /\ \A j \in 1..Len(heap.arrays[a]) : heap.arrays[a][j] > Len(plots)

\* C11: after solve(plots, params) has returned, the caller's list has the same
\* length, order and (fieldId, side, color, k) in every element as before the
\* call, params is unchanged, and every recursive call got a new list of new
\* records.
C11_InputNotMutated ==
  heap.done = TRUE =>
    /\ Len(heap.arrays[1]) = Len(plots)
    /\ Deref(heap, 1) = plots
    /\ heap.params = gameParams
    /\ NewArguments
    /\ heap.keys = DOMAIN memo

\* a call on three plots that the sort reorders and whose moves raise levels
C11_Witness ==
  /\ heap.done = TRUE
  /\ Len(plots) = 3
  /\ SortPlots(plots) # plots
  /\ heap.args # {}
  /\ \E r \in 1..Len(heap.recs) : heap.recs[r].k > MaxStartK + 1
  /\ Deref(heap, 1) = plots

---------------------------------------------------------------------------
(* Claims settled under SpecApp: the deferred runs of the App *)

\* what solve does for the last call's arguments on a cleared cache
FreshRun == solve(last.plots, LastParams, Run(EmptyMemo))

\* C12: in the App every solve follows clearMemo in the same block, so under
\* any interleaving of handlers and waiting runs a top-level solve never
\* returns an entry of the cache: its result and the cache it leaves are those
\* of a search on a cleared cache under the run's own parameters and plots.
C12_AppSolvesOnClearedCache ==
  last.op = "solve" =>
    /\ last.hit = FALSE
    /\ last.res = FreshRun.res
    /\ memo = FreshRun.run.memo

\* a run that resumes with other parameters than the run before it, both for
\* the same plots, while a third run waits
C12_Witness ==
  /\ last.op = "solve"
  /\ memo # EmptyMemo
  /\ runs.pending # <<>>
  /\ runs.started >= 3
  /\ last.params # <<gameParams>>
  /\ last.res # solve(last.plots, gameParams, Run(EmptyMemo)).res

---------------------------------------------------------------------------
(* Claims settled under SpecRaise: one tier value grows between two solves *)

\* the last solve ran on a cleared cache under the params a raise produced
SolvedAfterRaise ==
  /\ last.op = "solve"
  /\ last.params = <<gameParams>>
  /\ before.result # <<>>

\* C13: with probabilities in [0, 1] and reference quantities >= 0, raising the
\* value of one tier, all else equal, never lowers the maxEV that solve returns
\* on a cleared cache for the same plot list.
C13_RaiseNeverLowersMaxEV ==
  SolvedAfterRaise => RLe(before.result[1].maxEV, last.res.maxEV)

\* a field's pair with B = 1/2 where the raise made maxEV strictly larger
C13_Witness ==
  /\ SolvedAfterRaise
  /\ \E i, j \in 1..Len(plots) : i # j /\ plots[i].fieldId = plots[j].fieldId
  /\ gameParams.probSurvival = Half
  /\ RGt(last.res.maxEV, before.result[1].maxEV)

---------------------------------------------------------------------------
(* Claims settled under Spec: the path of the two-plot scenario *)

\* the immediate gain of either plot in the two-plot scenario
ScenarioGain ==
  IF RLe(LastParams.buyCountPurple, Zero) THEN Zero ELSE LastParams.valL1

\* C14 as stated: in the two-plot scenario the path holds exactly two step
\* descriptions, one per harvest.
C14_TwoPlotsTwoSteps ==
  TwoPlotScenario => Len(last.res.path) = 2

\* C14 amended: in the two-plot scenario the path holds exactly one step, the
\* harvest of the plot listed first, since the neighbor is removed with the
\* harvested plot; it is empty when the gain of a harvest is not above -1.
C14_TwoPlotsOneStep ==
  TwoPlotScenario
    => last.res.path = IF RGt(ScenarioGain, R(-1)) THEN <<StepDesc(last.plots[1])>>
                       ELSE <<>>

\* the scenario with a positive tier-1 value: one step, naming the first plot
C14_Witness ==
  /\ TwoPlotScenario
  /\ RGt(ScenarioGain, Zero)
  /\ last.plots[1].color = "blue"
  /\ Len(last.res.path) = 1

---------------------------------------------------------------------------
(* Claims settled under SpecCalc: getSeedEV and getCropMultiplier *)

\* the three transition probabilities lie in [0, 1]
UnitProbabilities ==
  \A q \in {gameParams.probL1toL2, gameParams.probL2toL3, gameParams.probL3toL4} :
    RLe(Zero, q) /\ RLe(q, One)

TierValues ==
  {gameParams.valL1, gameParams.valL2, gameParams.valL3, gameParams.valL4}

\* p is a probability distribution over the four tiers
Distribution(p) ==
  /\ \A j \in 1..4 : RLe(Zero, p[j])
  /\ RAdd(RAdd(RAdd(p[1], p[2]), p[3]), p[4]) = One

\* C15: with transition probabilities in [0, 1] the tier vector is a probability
\* distribution before and after every pass of the loop of getSeedEV, and the
\* value returned lies between the least and the largest of the four tier values.
C15_TierVectorIsDistribution ==
  (calc.op = "getSeedEV" /\ UnitProbabilities) =>
    /\ Distribution(calc.p)
    /\ calc.out # <<>> =>
         /\ \E v \in TierValues : RLe(v, calc.out[1])
         /\ \E v \in TierValues : RLe(calc.out[1], v)

\* after MaxChecks coin flips per tier every tier holds mass and the value
\* returned lies strictly between the extreme tier values
C15_Witness ==
  /\ calc.op = "getSeedEV"
  /\ calc.k = MaxChecks
  /\ calc.out # <<>>
  /\ \A j \in 1..4 : RGt(calc.p[j], Zero)
  /\ \E v \in TierValues : RGt(calc.out[1], v)
  /\ \E v \in TierValues : RGt(v, calc.out[1])

\* the probability of leaving tier j for tier j + 1
LeaveProbability(j) ==
  CASE j = 1 -> gameParams.probL1toL2
    [] j = 2 -> gameParams.probL2toL3
    [] j = 3 -> gameParams.probL3toL4

\* the value of tier j
ValueOfTier(j) ==
  CASE j = 1 -> gameParams.valL1
    [] j = 2 -> gameParams.valL2
    [] j = 3 -> gameParams.valL3
    [] j = 4 -> gameParams.valL4

\* all the mass on tier j
UnitAt(j) == [t \in 1..4 |-> IF t = j THEN One ELSE Zero]

TopTier(n) == IF n < 4 THEN n ELSE 4

\* what tier j holds after a pass without the mass that arrived from tier j - 1
Kept(j) ==
  IF j = 1 THEN calc.p[1]
  ELSE RSub(calc.p[j], RMul(calc.from[j - 1], LeaveProbability(j - 1)))

\* C16: getSeedEV(0) is the tier-1 value for any probabilities and values; a pass
\* with a leave probability of 1 for tier j leaves nothing of tier j's mass on
\* tier j and puts all of it on tier j + 1, and tier 4 keeps all its mass; so
\* probL1toL2 = 1 gives getSeedEV(1) = tier-2 value, and with all three
\* probabilities 1 getSeedEV(k) is the value of tier min(k + 1, 4).
C16_DeterministicSteps ==
  calc.op = "getSeedEV" =>
    /\ (calc.k = 0 /\ calc.out # <<>>) => calc.out[1] = gameParams.valL1
    /\ calc.i > 0 =>
         /\ \A j \in 1..3 : LeaveProbability(j) = One => Kept(j) = Zero
         /\ Kept(4) = calc.from[4]
    /\ (gameParams.probL1toL2 = One /\ calc.k = 1 /\ calc.out # <<>>)
         => calc.out[1] = gameParams.valL2
    /\ (\A j \in 1..3 : LeaveProbability(j) = One) =>
         /\ calc.p = UnitAt(TopTier(calc.i + 1))
         /\ calc.out # <<>> => calc.out[1] = ValueOfTier(TopTier(calc.k + 1))

\* tier 1 = 0, tier 2 = 10, probL1toL2 = 1 and one check: the value returned is 10
C16_Witness ==
  /\ calc.op = "getSeedEV"
  /\ calc.k = 1
  /\ gameParams.valL1 = Zero /\ gameParams.valL2 = R(10)
  /\ gameParams.probL1toL2 = One /\ gameParams.probL2toL3 = Half
  /\ calc.out = <<R(10)>>

\* the reference quantity configured for a color
ReferenceQuantity(color) ==
  CASE color = "purple" -> gameParams.buyCountPurple
    [] color = "blue"   -> gameParams.buyCountBlue
    [] color = "yellow" -> gameParams.buyCountYellow

\* the largest of the three reference quantities
LargestQuantity ==
  CHOOSE m \in {ReferenceQuantity(c) : c \in CropColors} :
    \A c \in CropColors : RLe(ReferenceQuantity(c), m)

\* C17: getCropMultiplier always returns, and returns a value >= 0: 0 when the
\* reference quantity of the color is <= 0, else the largest of the three
\* quantities divided by it; and solve on a single plot whose color has a
\* quantity <= 0 returns the gain 0 of that plot as maxEV.
C17_MultiplierNeverNegative ==
  /\ calc.op = "getCropMultiplier" =>
       /\ calc.out # <<>>
       /\ RLe(Zero, calc.out[1])
       /\ IF RLe(ReferenceQuantity(calc.color), Zero) THEN calc.out[1] = Zero
          ELSE RMul(calc.out[1], ReferenceQuantity(calc.color)) = LargestQuantity
  /\ (last.op = "solve" /\ RLe(ReferenceQuantity(last.plots[1].color), Zero))
       => last.res.maxEV = Zero

\* a negative quantity gave the multiplier 0, and a single plot of a color
\* without a positive quantity was solved with maxEV 0
C17_Witness ==
  /\ calc.op = "getCropMultiplier"
  /\ RGt(Zero, ReferenceQuantity(calc.color))
  /\ calc.out = <<Zero>>
  /\ last.op = "solve"
  /\ RLe(ReferenceQuantity(last.plots[1].color), Zero)
  /\ last.res.path # <<>>

\* the passes of callGetSeedEV, advanceSeed and returnSeedEV compute getSeedEV
SeedRunsAgree ==
  (calc.op = "getSeedEV" /\ calc.out # <<>>) => calc.out[1] = getSeedEV(calc.k, gameParams)

---------------------------------------------------------------------------
(* Claims settled under Spec: the successor states *)

PlotSet(ps) == {ps[j] : j \in 1..Len(ps)}

\* the plot y after the harvest of a plot of the given color: k + n if the
\* colors differ; fieldId, side and color stay
Grown(y, color, n) ==
  [fieldId |-> y.fieldId, side |-> y.side, color |-> y.color,
   k |-> IF y.color # color THEN y.k + n ELSE y.k]

\* branch A after the harvest of x: the plots of the other fields, each grown by 1
SuccessorA(S, x) == {Grown(y, x.color, 1) : y \in {z \in S : z.fieldId # x.fieldId}}

NeighborsIn(S, x) == {y \in S \ {x} : y.fieldId = x.fieldId}

\* branch B after the harvest of x: the neighbor grown by 2 and the successor of branch A
SuccessorB(S, x) == {Grown(y, x.color, 2) : y \in NeighborsIn(S, x)} \cup SuccessorA(S, x)

\* the non-empty states a search from S passes through
RECURSIVE Reach(_)
Reach(S) ==
  IF S = {} THEN {}
  ELSE {S} \cup UNION {Reach(SuccessorA(S, x)) : x \in S}
           \cup UNION {Reach(SuccessorB(S, x)) : x \in {y \in S : NeighborsIn(S, y) # {}}}

RECURSIVE SeqOf(_)
SeqOf(S) ==
  IF S = {} THEN <<>>
  ELSE LET x == CHOOSE y \in S : TRUE IN <<x>> \o SeqOf(S \ {x})

\* C18: for every plot i of the list solve is called with, branch A is the plots
\* outside plot i's field, each with k + 1 if its color differs from plot i's and
\* with k unchanged otherwise; branch B, evaluated only when plot i has a
\* neighbor, is the neighbor with k + 2 if its color differs, else unchanged,
\* together with the plots of branch A; fieldId, side and color never change.
\* After a search on the cleared cache the cache holds exactly the keys of the
\* states reached by these successors.
C18_SuccessorStates ==
  SolvedFresh =>
    /\ \A i \in 1..Len(last.plots) :
         /\ PlotSet(NextPlotsA(last.plots, i)) = SuccessorA(PlotSet(last.plots), last.plots[i])
         /\ Len(NextPlotsA(last.plots, i))
              = Cardinality(SuccessorA(PlotSet(last.plots), last.plots[i]))
         /\ HasNeighbor(last.plots, i) =>
              /\ PlotSet(NextPlotsB(last.plots, i))
                   = SuccessorB(PlotSet(last.plots), last.plots[i])
              /\ Len(NextPlotsB(last.plots, i))
                   = Cardinality(SuccessorB(PlotSet(last.plots), last.plots[i]))
    /\ DOMAIN memo = {generateKey(SeqOf(S)) : S \in Reach(PlotSet(last.plots))}

\* a field's pair of two colors and a plot of another field: the cache holds
\* the state in which the surviving neighbor has grown by 2 and the third plot by 1
C18_Witness ==
  /\ SolvedFresh
  /\ Len(last.plots) = 3
  /\ last.plots[1].fieldId = last.plots[2].fieldId
  /\ last.plots[1].color # last.plots[2].color
  /\ last.plots[3].color # last.plots[1].color
  /\ generateKey(<<Grown(last.plots[2], last.plots[1].color, 2),
                   Grown(last.plots[3], last.plots[1].color, 1)>>) \in DOMAIN memo

---------------------------------------------------------------------------
(* Claims settled under Spec: the survival probability without neighbors *)

\* no two plots of S are of the same field
DistinctFields(S) == \A x, y \in S : x.fieldId = y.fieldId => x = y

\* the states without neighbors that the last search passed through
LonelyKeys ==
  {generateKey(SeqOf(S)) : S \in {T \in Reach(PlotSet(last.plots)) : DistinctFields(T)}}

\* the last call repeated on a cleared cache with the survival probability b
SolvedWith(b) ==
  solve(last.plots, [LastParams EXCEPT !.probSurvival = b], Run(EmptyMemo))

\* the results the run `out` stored for the states without neighbors are those
\* of the last search, and so is its result if the list itself has no neighbors
SameWithoutNeighbors(out) ==
  /\ \A key \in LonelyKeys : out.run.memo[key] = memo[key]
  /\ DistinctFields(PlotSet(last.plots)) =>
       /\ out.res = last.res
       /\ out.run.calls = last.calls

\* C19: B has no influence where no neighbor exists: a search on the cleared
\* cache stores the same result for every state without two plots of one field,
\* whatever B is, and for a list whose plots are of pairwise distinct fields it
\* returns the same maxEV, path and bestMoveId (and makes the same number of
\* calls, none for a branch B) for every value of B.
\* (The runs cover every B; equal to the search with B = 0 under each of them
\* is equal under all of them.)
C19_SurvivalIrrelevantWithoutNeighbor ==
  (SolvedFresh /\ LastParams.probSurvival # Zero) => SameWithoutNeighbors(SolvedWith(Zero))

\* two plots of two fields solved with B = 1/2 to a two-step path
C19_Witness ==
  /\ SolvedFresh
  /\ Len(last.plots) = 2
  /\ DistinctFields(PlotSet(last.plots))
  /\ LastParams.probSurvival = Half
  /\ Len(last.res.path) = 2

---------------------------------------------------------------------------
(* Claims settled under Spec: what the path shows *)

\* the path solve returned for the state T during the last search
PathOf(T) == IF T = {} THEN <<>> ELSE memo[generateKey(SeqOf(T))].path

\* the result e of the state S names a plot of S, starts its path with the step
\* of that plot at its level k and continues with the path of branch A
FollowsBranchA(e, S) ==
  /\ e.bestMoveId # <<>>
  /\ \E x \in S :
       /\ e.bestMoveId = <<PlotId(x)>>
       /\ e.path = <<StepDesc(x)>> \o PathOf(SuccessorA(S, x))

\* C20: every result that solve stores or returns for a non-empty state has as
\* first path element the description of the plot named by bestMoveId at its
\* level k and as the rest the path of that plot's branch-A sub-result, also
\* when the plot has a neighbor and B > 0.
C20_PathFollowsBranchA ==
  SolvedFresh =>
    /\ FollowsBranchA(last.res, PlotSet(last.plots))
    /\ \A S \in Reach(PlotSet(last.plots)) : FollowsBranchA(memo[generateKey(SeqOf(S))], S)

\* C20 where it is not hit by the running best that starts at -1: every result
\* with a best move is built from that move's step and its branch-A path.
C20_PathFollowsBranchAOfBestMove ==
  SolvedFresh =>
    /\ last.res.bestMoveId # <<>> => FollowsBranchA(last.res, PlotSet(last.plots))
    /\ \A S \in Reach(PlotSet(last.plots)) :
         memo[generateKey(SeqOf(S))].bestMoveId # <<>>
           => FollowsBranchA(memo[generateKey(SeqOf(S))], S)

\* a best move with a neighbor and B = 1/2: branch B counted in maxEV, the path
\* is the step of the move and then branch A's path
C20_BranchBCase ==
  /\ SolvedFresh
  /\ Len(last.plots) = 3
  /\ LastParams.probSurvival = Half
  /\ \E i \in 1..Len(last.plots) :
       /\ last.res.bestMoveId = <<PlotId(last.plots[i])>>
       /\ HasNeighbor(last.plots, i)
       /\ Len(last.res.path) = 2

---------------------------------------------------------------------------
(* Claims settled under SpecHeap: the lists of the recursive calls *)

\* k >= 0, at most two plots per field, at most one plot per (fieldId, side)
FieldInvariant(ps) ==
  /\ \A j \in 1..Len(ps) : ps[j].k >= 0
  /\ \A j \in 1..Len(ps) :
       Cardinality({i \in 1..Len(ps) : ps[i].fieldId = ps[j].fieldId}) <= 2
  /\ WellFormed(ps)

Identity(p) == <<p.fieldId, p.side>>

Identities(ps) == {Identity(ps[j]) : j \in 1..Len(ps)}

\* the list of the call is a strict subset of the caller's list by plot
\* identity, and no plot of it has a smaller k than in the caller's list
ShrinksAndGrows(parent, child) ==
  /\ Identities(child) \subseteq Identities(parent)
  /\ Identities(child) # Identities(parent)
  /\ \A j \in 1..Len(child) : \A i \in 1..Len(parent) :
       Identity(parent[i]) = Identity(child[j]) => child[j].k >= parent[i].k

\* C21: if the list of the top-level call has k >= 0 everywhere, at most two
\* plots per field and at most one per (fieldId, side), then the list of every
\* recursive call has the same three properties, is a strict subset of its
\* caller's list by plot identity, and holds no plot with a smaller k than the
\* plot has in the caller's list.
C21_SearchInvariant ==
  (heap.done /\ FieldInvariant(plots)) =>
    \A c \in heap.calls :
      /\ FieldInvariant(Deref(heap, c.to))
      /\ ShrinksAndGrows(Deref(heap, c.from), Deref(heap, c.to))

\* a call two levels down whose list holds a plot that has grown there
C21_Witness ==
  /\ heap.done
  /\ Len(plots) = 3
  /\ \E c \in heap.calls :
       /\ c.depth = 2
       /\ \E j \in 1..Len(heap.arrays[c.to]) : \E i \in 1..Len(heap.arrays[c.from]) :
            /\ Identity(Deref(heap, c.from)[i]) = Identity(Deref(heap, c.to)[j])
            /\ Deref(heap, c.to)[j].k > Deref(heap, c.from)[i].k

\* how many plots of the list other than the harvested plot j are of its field
NeighborCount(ps, j) ==
  Cardinality({i \in 1..Len(ps) : i # j /\ ps[i].fieldId = ps[j].fieldId})

\* the list of the call c is its caller's list without one plot (branch B) or
\* without one plot and the plots of its field (branch A)
RemovesHarvested(c) ==
  /\ Len(heap.arrays[c.to]) < Len(heap.arrays[c.from])
  /\ c.branch = "B" => Len(heap.arrays[c.to]) = Len(heap.arrays[c.from]) - 1
  /\ c.branch = "A" =>
       Len(heap.arrays[c.to])
         = Len(heap.arrays[c.from]) - 1 - NeighborCount(Deref(heap, c.from), c.move)

\* every recursive call of the search that returned got a strictly shorter list
\* than its caller, none was nested deeper than the top-level list is long, and
\* the stack is unwound
ShorterListsBoundedDepth ==
  heap.done =>
    /\ \A c \in heap.calls : RemovesHarvested(c) /\ c.depth <= Len(plots)
    /\ heap.depth = 0

\* C22: solve terminates: every recursive call receives a list strictly shorter
\* than its caller's (branch A without the harvested plot and its neighbor,
\* branch B without the harvested plot), the recursion is at most as deep as the
\* top-level list is long, and a call that was made runs to completion.
C22_SolveTerminates ==
  /\ []ShorterListsBoundedDepth
  /\ (heap.done = FALSE) ~> (heap.done = TRUE)

\* a search on three plots that went three calls deep, down to the empty list
C22_Witness ==
  /\ heap.done
  /\ Len(plots) = 3
  /\ \E c \in heap.calls : c.depth = 3 /\ Len(heap.arrays[c.to]) = 0

---------------------------------------------------------------------------
(* Claims settled under SpecApp: the App's harvest against the solver's branches *)

\* the active plots of the App, as runSolver hands them to solve
ActivePlots == PlotSet(LogicPlots(heap, fields))

\* the plot on a side of the field at index idx, active or not
PlotAt(idx, side) ==
  Plot(heap.fieldObjs[fields[idx]].id, side,
       heap.plotObjs[PlotRef(heap, fields, idx, side)].color,
       heap.plotObjs[PlotRef(heap, fields, idx, side)].k)

\* the plot whose harvest opened the neighbor check
CheckedHarvest ==
  PlotAt(neighborCheck[1].targetFieldIdx, OtherSide(neighborCheck[1].neighborSide))

\* the state the solver would be in before the harvest the neighbor check is about
BeforeCheckedHarvest == ActivePlots \cup {CheckedHarvest}

\* this step is the harvest of the plot at (idx, side), whose neighbor is inactive
HarvestedAlone(idx, side) ==
  /\ runs.started < MaxRuns
  /\ heap.plotObjs[PlotRef(heap, fields, idx, side)].active
  /\ ~heap.plotObjs[PlotRef(heap, fields, idx, OtherSide(side))].active
  /\ HarvestMarked([heap EXCEPT !.plotObjs[PlotRef(heap, fields, idx, side)].active = FALSE],
                   idx, side,
                   heap.plotObjs[PlotRef(heap, fields, idx, side)],
                   heap.plotObjs[PlotRef(heap, fields, idx, OtherSide(side))])

\* this step is the answer 'survived' (TRUE) or 'withered' (FALSE) to the neighbor check
Answered(survived) ==
  /\ runs.started < MaxRuns
  /\ neighborCheck # <<>>
  /\ NeighborResult(survived,
                    PlotRef(heap, fields, neighborCheck[1].targetFieldIdx,
                            neighborCheck[1].neighborSide),
                    neighborCheck[1].harvestedColor)
  /\ neighborCheck' = <<>>

\* what the claim says of one step of the App
HarvestAgreesWithBranches ==
  /\ \A idx \in 1..Len(fields), side \in {"left", "right"} :
       HarvestedAlone(idx, side)
         => ActivePlots' = SuccessorA(ActivePlots, PlotAt(idx, side))
  /\ Answered(FALSE)
       => ActivePlots' = SuccessorA(BeforeCheckedHarvest, CheckedHarvest)
  /\ Answered(TRUE)
       => /\ NeighborsIn(BeforeCheckedHarvest, CheckedHarvest) # {}
          /\ ActivePlots' = SuccessorB(BeforeCheckedHarvest, CheckedHarvest)

\* C23: every harvest of a plot whose neighbor is inactive, and every answer
\* 'withered' to the neighbor check, leaves as active plots the solver's
\* branch-A state of the harvest; every answer 'survived' leaves the solver's
\* branch-B state, the neighbor being active in it.
C23_HarvestAgreesWithBranches == [][HarvestAgreesWithBranches]_vars

---------------------------------------------------------------------------
(* Claims settled under SpecWarm: the entries of the cache *)

\* every entry of the cache is still there, with the value it had
EntriesKept == \A key \in DOMAIN memo : key \in DOMAIN memo' /\ memo'[key] = memo[key]

\* the step is clearMemo: neither a call of solve nor a change of a parameter
ClearStep == ~SolveStep /\ gameParams' = gameParams

\* what the claim says of one step on the cache
CacheWriteOnce ==
  /\ ~ClearStep => EntriesKept
  /\ SolveStep => Cardinality(DOMAIN memo') = Cardinality(DOMAIN memo) + last'.writes
  /\ generateKey(<<>>) \notin DOMAIN memo'
  /\ ClearStep => memo' = EmptyMemo

\* C24: a step that is not clearMemo keeps every entry of the cache with its
\* value, so the set of keys only grows; every memo.set of a call of solve adds
\* a key that was absent; the key of the empty state is never in the cache;
\* after clearMemo the cache is empty.
C24_CacheWriteOnce == [][CacheWriteOnce]_vars

\* a call on a cache that held entries has kept them and added new ones
C24_Witness ==
  /\ last.op = "solve"
  /\ last.writes > 0
  /\ fills = 2
  /\ Cardinality(DOMAIN memo) > last.writes

---------------------------------------------------------------------------
(* Claims settled under SpecRange: the length of the path *)

\* the field identifiers of a list
FieldIds(ps) == {ps[j].fieldId : j \in 1..Len(ps)}

\* tier values and reference quantities of at least 0
NonNegativeValues(p) ==
  /\ \A v \in {p.valL1, p.valL2, p.valL3, p.valL4} : RLe(Zero, v)
  /\ \A c \in {p.buyCountPurple, p.buyCountBlue, p.buyCountYellow} : RLe(Zero, c)

\* C25: for a list that satisfies the field invariant and parameters whose tier
\* values and reference quantities are not negative, the path solve returns has
\* as many steps as the list has distinct field identifiers.
C25_PathLengthIsFieldCount ==
  (last.op = "solve" /\ FieldInvariant(last.plots) /\ NonNegativeValues(LastParams))
    => Len(last.res.path) = Cardinality(FieldIds(last.plots))

\* the same with every probability of the parameters in [0, 1]
C25_PathLengthInRange ==
  (/\ last.op = "solve"
   /\ FieldInvariant(last.plots)
   /\ NonNegativeValues(LastParams)
   /\ \A q \in {LastParams.probSurvival, LastParams.probL1toL2, LastParams.probL2toL3,
                LastParams.probL3toL4} : RLe(Zero, q) /\ RLe(q, One))
    => Len(last.res.path) = Cardinality(FieldIds(last.plots))

\* a field's pair among three plots: a path shorter than the list
C25_FewerStepsThanPlots ==
  /\ last.op = "solve"
  /\ Len(last.plots) = 3
  /\ Len(last.res.path) = 2
  /\ Cardinality(FieldIds(last.plots)) = 2

---------------------------------------------------------------------------
(* Claims settled under SpecAppFair: the suggestion once the runs are through *)

\* what the App should display for the fields and params it holds now
FreshSuggestion ==
  IF LogicPlots(heap, fields) = <<>> THEN <<>>
  ELSE << solve(LogicPlots(heap, fields), gameParams, Run(EmptyMemo)).res >>

\* no run is pending: the suggestion is the one of the current fields and params
SuggestionConsistent == runs.pending = <<>> => suggestion = FreshSuggestion

\* the runs complete in the order they were started: a step takes the oldest
\* pending run away or puts a new one behind the others
RunsInOrder ==
  \/ runs.pending' = runs.pending
  \/ runs.pending # <<>> /\ runs.pending' = Tail(runs.pending)
  \/ Len(runs.pending') = Len(runs.pending) + 1
       /\ SubSeq(runs.pending', 1, Len(runs.pending)) = runs.pending

\* the suggestion is set by the oldest pending run only
OldestRunSuggests ==
  suggestion' # suggestion => runs.pending # <<>> /\ runs.pending' = Tail(runs.pending)

\* C26: whenever no run is pending, the suggestion is the result of solve from
\* a cleared cache on the active plots with the current params, or null when no
\* plot is active; the pending runs complete oldest first and only the oldest
\* sets the suggestion; and from some point on no run is pending.
C26_SuggestionEventuallyConsistent ==
  /\ []SuggestionConsistent
  /\ [][RunsInOrder /\ OldestRunSuggests]_vars
  /\ <>[](runs.pending = <<>>)

\* every run the bound allows was started, all are through, plots were
\* harvested and a suggestion is displayed
C26_Witness ==
  /\ runs.started >= MaxRuns
  /\ runs.pending = <<>>
  /\ suggestion # <<>>
  /\ suggestion = FreshSuggestion
  /\ \E r \in PlotRefs(heap, fields) : ~heap.plotObjs[r].active

=============================================================================
